---- MODULE Spec2Model ----
(***************************************************************************)
(* Model of scripts/make_wordcloud.py: the text cleaning functions         *)
(* (_strip_latex, _clean_text) and the pipeline of main().                 *)
(*                                                                         *)
(* A Python str is a sequence of one-character strings; a token, a file    *)
(* name and a stopword are such sequences too.                             *)
(***************************************************************************)
EXTENDS Integers, Sequences, FiniteSets, TLC

VARIABLES
    \* ---- main() ----
    pc,            \* position in main()
    args,          \* the parsed command line (argparse namespace)
    wordcloud_ok,  \* environment: "from wordcloud import ..." succeeds
    pdfminer_ok,   \* environment: "from pdfminer.high_level import ..." succeeds
    input_exists,  \* environment: input_dir.exists()
    tex_files,     \* sorted(input_dir.glob("*.tex"))
    pdfs,          \* sorted(input_dir.glob("*.pdf"))
    stop_seen,     \* the stopword paths whose existence was tested
    stop_file,     \* the stopwords file found at stop_path: exists, text
    stopwords,     \* the stopword set
    idx,           \* index of the next file of the for loop
    read_log,      \* the files the run extracted text from, in order
    all_words,     \* the token stream
    raw_counts,    \* Counter(all_words)
    words,         \* the filtered token stream
    counts,        \* Counter(words)
    rendered,      \* wc.generate_from_frequencies was called
    png_written,   \* wc.to_file was called
    out,           \* the lines printed so far
    rc,            \* the value main() returned, -1 while it runs
    \* ---- a call of the pure functions on one text ----
    fn_pc, fn_text, fn_min_len, fn_stripped, fn_tokens, fn_again

main_vars == <<pc, args, wordcloud_ok, pdfminer_ok, input_exists, tex_files,
               pdfs, stop_seen, stop_file, stopwords, idx, read_log,
               all_words, raw_counts, words, counts, rendered, png_written,
               out, rc>>
fn_vars == <<fn_pc, fn_text, fn_min_len, fn_stripped, fn_tokens, fn_again>>
vars == <<main_vars, fn_vars>>

(***************************************************************************)
(* Characters                                                              *)
(***************************************************************************)
Lowercase == <<"a","b","c","d","e","f","g","h","i","j","k","l","m",
               "n","o","p","q","r","s","t","u","v","w","x","y","z">>
Uppercase == <<"A","B","C","D","E","F","G","H","I","J","K","L","M",
               "N","O","P","Q","R","S","T","U","V","W","X","Y","Z">>

\* The other characters the model uses, in code point order.
BelowUpper == <<"\t", "\n", " ", "$", "%", "*", ",", ".", "1", "2">>
BetweenCases == <<"[", "\\", "]", "^">>
AboveLower == <<"{", "}">>

\* All characters of the model in increasing code point order.
CharTable == BelowUpper \o Uppercase \o BetweenCases \o Lowercase \o AboveLower

\* Position of c in the code point order (order-isomorphic to ord(c)).
Ord(c) == CHOOSE i \in 1..Len(CharTable) : CharTable[i] = c

IsLower(c) == \E i \in 1..26 : Lowercase[i] = c
IsUpper(c) == \E i \in 1..26 : Uppercase[i] = c
\* [A-Za-z]
IsLetter(c) == IsLower(c) \/ IsUpper(c)
\* \s and str.strip(): whitespace
IsSpace(c) == c \in {" ", "\t", "\n"}

\* str.lower() on one character
LowerChar(c) ==
    IF IsUpper(c) THEN Lowercase[CHOOSE i \in 1..26 : Uppercase[i] = c] ELSE c

\* str.lower()
Lower(s) == [i \in 1..Len(s) |-> LowerChar(s[i])]

\* str.strip()
Strip(s) ==
    LET keep == {i \in 1..Len(s) : ~IsSpace(s[i])}
    IN  IF keep = {} THEN <<>>
        ELSE LET lo == CHOOSE i \in keep : \A j \in keep : i <= j
                 hi == CHOOSE i \in keep : \A j \in keep : i >= j
             IN  SubSeq(s, lo, hi)

\* str.split(sep) for a one-character sep: k separators give k+1 pieces,
\* so "".split(" ") is [""].
RECURSIVE Split(_, _)
Split(s, sep) ==
    LET at == {i \in 1..Len(s) : s[i] = sep}
    IN  IF at = {} THEN <<s>>
        ELSE LET i == CHOOSE k \in at : \A j \in at : k <= j
             IN  <<SubSeq(s, 1, i - 1)>> \o Split(SubSeq(s, i + 1, Len(s)), sep)

(***************************************************************************)
(* _clean_text                                                             *)
(***************************************************************************)
\* re.sub(r"[^A-Za-z\s]", " ", text)
SubNonLetters(text) ==
    [i \in 1..Len(text) |->
        IF IsLetter(text[i]) \/ IsSpace(text[i]) THEN text[i] ELSE " "]

\* re.sub(r"\s+", " ", text)
RECURSIVE CollapseSpace(_)
CollapseSpace(text) ==
    IF text = <<>> THEN <<>>
    ELSE IF IsSpace(Head(text))
         THEN IF Len(text) > 1 /\ IsSpace(text[2])
              THEN CollapseSpace(Tail(text))
              ELSE <<" ">> \o CollapseSpace(Tail(text))
         ELSE <<Head(text)>> \o CollapseSpace(Tail(text))

\* the length test applied to the whitespace-separated chunks before the
\* non-letters are replaced
_clean_text_filter_first(text, min_len) ==
    LET chunks == Split(Strip(CollapseSpace(text)), " ")
        kept == SelectSeq(chunks, LAMBDA w : Len(w) >= min_len)
        RECURSIVE Glue(_)
        Glue(ws) == IF ws = <<>> THEN <<>>
                    ELSE IF Len(ws) = 1 THEN ws[1]
                    ELSE ws[1] \o <<" ">> \o Glue(Tail(ws))
    IN  Split(Lower(Strip(CollapseSpace(SubNonLetters(Glue(kept))))), " ")

\* the list comprehension of _clean_text
LongEnough(ws, min_len) == SelectSeq(ws, LAMBDA w : Len(w) >= min_len)

_clean_text(text, min_len) ==
    LET t1 == SubNonLetters(text)
        t2 == Lower(Strip(CollapseSpace(t1)))
    IN  LongEnough(Split(t2, " "), min_len)

(***************************************************************************)
(* _strip_latex                                                            *)
(***************************************************************************)
\* Smallest j >= i with text[j] = c, 0 if there is none.
Find(text, i, c) ==
    LET at == {j \in i..Len(text) : text[j] = c}
    IN  IF at = {} THEN 0 ELSE CHOOSE j \in at : \A k \in at : j <= k

\* The same, where the characters skipped are matched by "." (no newline).
FindOnLine(text, i, c) ==
    LET j == Find(text, i, c)
    IN  IF j # 0 /\ \A k \in i..(j - 1) : text[k] # "\n" THEN j ELSE 0

\* text[i..] starts with the characters of lit
StartsWith(text, i, lit) ==
    /\ i + Len(lit) - 1 <= Len(text)
    /\ \A k \in 1..Len(lit) : text[i + k - 1] = lit[k]

\* (cite|ref|label|eqref|footnote|url|href)
RefCommands ==
    << <<"c","i","t","e">>, <<"r","e","f">>, <<"l","a","b","e","l">>,
       <<"e","q","r","e","f">>, <<"f","o","o","t","n","o","t","e">>,
       <<"u","r","l">>, <<"h","r","e","f">> >>

\* (?m)^%.*$  : index of the last character matched from i, 0 if no match
MatchComment(text, i) ==
    IF text[i] = "%" /\ (i = 1 \/ text[i - 1] = "\n")
    THEN LET nl == Find(text, i, "\n")
         IN  IF nl = 0 THEN Len(text) ELSE nl - 1
    ELSE 0

\* \$.*?\$
MatchInlineMath(text, i) ==
    IF text[i] = "$" THEN FindOnLine(text, i + 1, "$") ELSE 0

\* \\\[.*?\\\]  with re.S
MatchDisplayMath(text, i) ==
    IF StartsWith(text, i, <<"\\", "[">>)
    THEN LET ends == {j \in (i + 2)..Len(text) : StartsWith(text, j, <<"\\", "]">>)}
         IN  IF ends = {} THEN 0
             ELSE (CHOOSE j \in ends : \A k \in ends : j <= k) + 1
    ELSE 0

\* \\(cite|ref|label|eqref|footnote|url|href)\{.*?\}
MatchRefCommand(text, i) ==
    IF text[i] # "\\" THEN 0
    ELSE LET ok == {n \in 1..Len(RefCommands) :
                       /\ StartsWith(text, i + 1, RefCommands[n] \o <<"{">>)
                       /\ FindOnLine(text, i + Len(RefCommands[n]) + 2, "}") # 0}
         IN  IF ok = {} THEN 0
             ELSE LET n == CHOOSE m \in ok : \A k \in ok : m <= k
                  IN  FindOnLine(text, i + Len(RefCommands[n]) + 2, "}")

\* \\[a-zA-Z]+\*?(?:\[[^\]]*\])?(?:\{[^}]*\})?
MatchCommand(text, i) ==
    IF ~(text[i] = "\\" /\ i < Len(text) /\ IsLetter(text[i + 1])) THEN 0
    ELSE LET nonl == {j \in (i + 1)..Len(text) : ~IsLetter(text[j])}
             \* first position after the letters
             p1 == IF nonl = {} THEN Len(text) + 1
                   ELSE CHOOSE j \in nonl : \A k \in nonl : j <= k
             p2 == IF p1 <= Len(text) /\ text[p1] = "*" THEN p1 + 1 ELSE p1
             rb == IF p2 <= Len(text) /\ text[p2] = "[" THEN Find(text, p2 + 1, "]") ELSE 0
             p3 == IF rb # 0 THEN rb + 1 ELSE p2
             rc3 == IF p3 <= Len(text) /\ text[p3] = "{" THEN Find(text, p3 + 1, "}") ELSE 0
             p4 == IF rc3 # 0 THEN rc3 + 1 ELSE p3
         IN  p4 - 1

MatchEnd(re, text, i) ==
    CASE re = "comment"      -> MatchComment(text, i)
      [] re = "inline_math"  -> MatchInlineMath(text, i)
      [] re = "display_math" -> MatchDisplayMath(text, i)
      [] re = "ref_command"  -> MatchRefCommand(text, i)
      [] re = "command"      -> MatchCommand(text, i)

\* re.sub(re, " ", text) from position i on: leftmost, non-overlapping matches
RECURSIVE ReSubFrom(_, _, _)
ReSubFrom(re, text, i) ==
    IF i > Len(text) THEN <<>>
    ELSE LET e == MatchEnd(re, text, i)
         IN  IF e = 0 THEN <<text[i]>> \o ReSubFrom(re, text, i + 1)
             ELSE <<" ">> \o ReSubFrom(re, text, e + 1)

ReSub(re, text) == ReSubFrom(re, text, 1)

\* text.replace("{", " ").replace("}", " ")
ReplaceBraces(text) ==
    [i \in 1..Len(text) |-> IF text[i] \in {"{", "}"} THEN " " ELSE text[i]]

_strip_latex(text) ==
    LET t1 == ReSub("comment", text)
        t2 == ReSub("inline_math", t1)
        t3 == ReSub("display_math", t2)
        t4 == ReSub("ref_command", t3)
        t5 == ReSub("command", t4)
    IN  ReplaceBraces(t5)

(***************************************************************************)
(* The pure functions applied to one text:                                 *)
(*   tex text:   _strip_latex, then _clean_text, then _clean_text of the   *)
(*               tokens joined by single spaces                            *)
(*   plain text: _clean_text, then _clean_text of the joined tokens        *)
(***************************************************************************)
MaxTextLen == 4
MaxTexLen == 3

\* the values of --min-len tried (type=int accepts any integer)
MinLens == -1..3

SeqsUpTo(S, n) == UNION {[1..k -> S] : k \in 0..n}

PlainAlphabet == {"a", "b", "Z", " ", "\n", "1"}
TexAlphabet == {"%", " ", "\n", "a", "$", "\\"}

\* "\\cite{foo} Hello World % a comment\n$x^2$ more text"
ExampleTex ==
    <<"\\","c","i","t","e","{","f","o","o","}"," ","H",
      "e","l","l","o"," ","W","o","r","l","d"," ","%",
      " ","a"," ","c","o","m","m","e","n","t","\n","$",
      "x","^","2","$"," ","m","o","r","e"," ","t","e",
      "x","t">>

\* further LaTeX inputs: commands with arguments, display math, comments
SampleTex ==
    { ExampleTex,
      <<"%","c","\n"," ","%","d">>,
      <<" "," ","%"," ","x","\n","a","b">>,
      <<"\\","s","e","c","t","i","o","n","*","[","s","]",
        "{","I","n","t","r","o","}"," ","a","b">>,
      <<"\\","[","a","\n","\\","]"," ","b"," ","$">>,
      <<"\\","r","e","f","{","a","}"," ","$","b","$"," ",
        "c">> }

PlainTexts == SeqsUpTo(PlainAlphabet, MaxTextLen)
TexTexts == SeqsUpTo(TexAlphabet, MaxTexLen) \cup SampleTex

\* " ".join(ws)
RECURSIVE JoinSpace(_)
JoinSpace(ws) ==
    IF ws = <<>> THEN <<>>
    ELSE IF Len(ws) = 1 THEN ws[1]
    ELSE ws[1] \o <<" ">> \o JoinSpace(Tail(ws))

MainIdle ==
    /\ pc = "idle" /\ args = <<>> /\ wordcloud_ok = FALSE /\ pdfminer_ok = FALSE
    /\ input_exists = FALSE /\ tex_files = <<>> /\ pdfs = <<>>
    /\ stop_seen = {} /\ stop_file = [exists |-> FALSE, text |-> <<>>]
    /\ stopwords = {} /\ idx = 1
    /\ read_log = <<>> /\ all_words = <<>> /\ raw_counts = <<>>
    /\ words = <<>> /\ counts = <<>> /\ rendered = FALSE
    /\ png_written = FALSE /\ out = <<>> /\ rc = -1

FnInit ==
    /\ MainIdle
    /\ \/ fn_pc = "strip" /\ fn_text \in TexTexts
       \/ fn_pc = "clean" /\ fn_text \in PlainTexts
    /\ fn_min_len \in MinLens
    /\ fn_stripped = fn_text
    /\ fn_tokens = <<>>
    /\ fn_again = <<>>

StripStep ==
    /\ fn_pc = "strip"
    /\ fn_stripped' = _strip_latex(fn_text)
    /\ fn_pc' = "clean"
    /\ UNCHANGED <<main_vars, fn_text, fn_min_len, fn_tokens, fn_again>>

CleanStep ==
    /\ fn_pc = "clean"
    /\ fn_tokens' = _clean_text(fn_stripped, fn_min_len)
    /\ fn_pc' = "reclean"
    /\ UNCHANGED <<main_vars, fn_text, fn_min_len, fn_stripped, fn_again>>

RecleanStep ==
    /\ fn_pc = "reclean"
    /\ fn_again' = _clean_text(JoinSpace(fn_tokens), fn_min_len)
    /\ fn_pc' = "done"
    /\ UNCHANGED <<main_vars, fn_text, fn_min_len, fn_stripped, fn_tokens>>

FnNext == StripStep \/ CleanStep \/ RecleanStep

SpecFn == FnInit /\ [][FnNext]_vars

(***************************************************************************)
(* collections.Counter: the items in first-occurrence order, as            *)
(* <<word, count>> pairs                                                   *)
(***************************************************************************)
HasKey(c, w) == \E i \in 1..Len(c) : c[i][1] = w

Incr(c, w) ==
    IF HasKey(c, w)
    THEN [i \in 1..Len(c) |-> IF c[i][1] = w THEN <<w, c[i][2] + 1>> ELSE c[i]]
    ELSE Append(c, <<w, 1>>)

RECURSIVE CountInto(_, _)
CountInto(c, ws) ==
    IF ws = <<>> THEN c ELSE CountInto(Incr(c, Head(ws)), Tail(ws))

\* Counter(ws)
Counter(ws) == CountInto(<<>>, ws)

\* c.get(w, 0)
Get(c, w) ==
    IF HasKey(c, w) THEN c[CHOOSE i \in 1..Len(c) : c[i][1] = w][2] ELSE 0

\* sorted(c.items(), key=itemgetter(1), reverse=True): stable
RECURSIVE SortedByCount(_)
SortedByCount(c) ==
    IF c = <<>> THEN <<>>
    ELSE LET best == {i \in 1..Len(c) : \A j \in 1..Len(c) : c[j][2] <= c[i][2]}
             i == CHOOSE k \in best : \A j \in best : k <= j
         IN  <<c[i]>> \o SortedByCount(SubSeq(c, 1, i - 1) \o SubSeq(c, i + 1, Len(c)))

\* c.most_common(n) = heapq.nlargest(n, c.items(), key=itemgetter(1))
most_common(c, n) ==
    IF n <= 0 THEN <<>>
    ELSE SubSeq(SortedByCount(c), 1, IF n < Len(c) THEN n ELSE Len(c))

(***************************************************************************)
(* Files                                                                   *)
(***************************************************************************)
\* a < b for two str, by code point
RECURSIVE StrLess(_, _)
StrLess(a, b) ==
    IF b = <<>> THEN FALSE
    ELSE IF a = <<>> THEN TRUE
    ELSE IF Head(a) # Head(b) THEN Ord(Head(a)) < Ord(Head(b))
    ELSE StrLess(Tail(a), Tail(b))

\* sorted(S) for a set of names
RECURSIVE Sorted(_)
Sorted(S) ==
    IF S = {} THEN <<>>
    ELSE LET m == CHOOSE x \in S : \A y \in S \ {x} : StrLess(x, y)
         IN  <<m>> \o Sorted(S \ {m})

EndsWith(name, suffix) ==
    /\ Len(name) >= Len(suffix)
    /\ SubSeq(name, Len(name) - Len(suffix) + 1, Len(name)) = suffix

\* sorted(input_dir.glob("*" + suffix)) in a directory holding the names dir
SortedGlob(dir, suffix) == Sorted({n \in dir : EndsWith(n, suffix)})

\* str.splitlines() for "\n" line ends
SplitLines(text) ==
    IF text = <<>> THEN <<>>
    ELSE LET pieces == Split(text, "\n")
         IN  IF text[Len(text)] = "\n" THEN SubSeq(pieces, 1, Len(pieces) - 1)
             ELSE pieces

\* {w.strip().lower() for w in items if w.strip()}
StripLowerSet(items) ==
    {Lower(Strip(items[i])) : i \in {k \in 1..Len(items) : Strip(items[k]) # <<>>}}

\* [w.strip().lower() for w in s.split(",") if w.strip()]
StripLowerList(s) ==
    LET kept == SelectSeq(Split(s, ","), LAMBDA w : Strip(w) # <<>>)
    IN  [i \in 1..Len(kept) |-> Lower(Strip(kept[i]))]

(***************************************************************************)
(* Inputs of main()                                                        *)
(***************************************************************************)
\* at most this many entries in the input directory
MaxFiles == 3

\* number of words of the "Top words:" line
TopWords == 20

W_the == <<"t","h","e">>
W_and == <<"a","n","d">>
W_of == <<"o","f">>
W_quantum == <<"q","u","a","n","t","u","m">>
W_field == <<"f","i","e","l","d">>

\* wordcloud.STOPWORDS (three of its entries)
STOPWORDS == {W_the, W_and, W_of}

\* Path(__file__).resolve().parent / ".." / "stopwords.txt"
FallbackPath == "../stopwords.txt"

DirEntries ==
    { <<"a",".","t","e","x">>,
      <<"B",".","t","e","x">>,
      <<"a",".","p","d","f">>,
      <<"c",".","p","d","f">>,
      <<"n",".","t","x","t">> }

Dirs == {d \in SUBSET DirEntries : Cardinality(d) <= MaxFiles}

\* contents of .tex files
TexDocs ==
    { <<"T","h","e"," ","q","u","a","n","t","u","m"," ","t","h",
        "e">>,
      <<"%","c","\n","\\","c","i","t","e","{","x","}"," ","F","i",
        "e","l","d"," ","o","f"," ","$","y","$"," ","t","h","e">>,
      <<>> }

\* texts returned by pdfminer's extract_text
PdfDocs ==
    { <<"t","h","e"," ","q","u","a","n","t","u","m"," ","t","h",
        "e"," ","t","h","e"," ","q","u","a","n","t","u","m"," ",
        "t","h","e"," ","q","u","a","n","t","u","m"," ","t","h",
        "e">>,
      <<"F","i","e","l","d","-","t","h","e","o","r","y"," ","A",
        "N","D"," ","f","i","e","l","d">>,
      <<"o","f">> }

\* contents of a stopwords file
StopFileTexts ==
    { <<>>,
      <<" ","F","i","e","l","d","\n","\n","q","u","a","n","t","u",
        "m"," ","\n">> }

DebugWordsArgs ==
    { <<>>,
      <<"t","h","e",",","q","u","a","n","t","u","m">>,
      <<" ","F","i","e","l","d"," ",",",","," ","o","f",",","x">> }

ExtraStopwordsArgs ==
    { <<>>,
      <<"Q","u","a","n","t","u","m",","," ",",","a","n","d">> }

ArgSpace ==
    [ min_len : {0, 3},
      print_top : -1..2,
      debug_words : DebugWordsArgs,
      stopwords : {"", "my_stopwords.txt"},
      extra_stopwords : ExtraStopwordsArgs ]

(***************************************************************************)
(* main()                                                                  *)
(***************************************************************************)
Line(kind, word, n, m, items) ==
    [kind |-> kind, word |-> word, n |-> n, m |-> m, items |-> items]

Msg(kind) == Line(kind, <<>>, 0, 0, <<>>)

FnIdle ==
    /\ fn_pc = "idle" /\ fn_text = <<>> /\ fn_min_len = 0
    /\ fn_stripped = <<>> /\ fn_tokens = <<>> /\ fn_again = <<>>

Init ==
    /\ FnIdle
    /\ pc = "import_wordcloud"
    /\ args \in ArgSpace
    /\ wordcloud_ok \in BOOLEAN
    /\ pdfminer_ok \in BOOLEAN
    /\ input_exists \in BOOLEAN
    /\ tex_files = <<>> /\ pdfs = <<>>
    /\ stop_seen = {} /\ stop_file = [exists |-> FALSE, text |-> <<>>]
    /\ stopwords = {}
    /\ idx = 1 /\ read_log = <<>> /\ all_words = <<>>
    /\ raw_counts = <<>> /\ words = <<>> /\ counts = <<>>
    /\ rendered = FALSE /\ png_written = FALSE
    /\ out = <<>> /\ rc = -1

\* "return 1" after printing the lines
Fail(lines) ==
    /\ out' = out \o lines
    /\ rc' = 1
    /\ pc' = "done"

\* from wordcloud import WordCloud, STOPWORDS
ImportWordcloud ==
    /\ pc = "import_wordcloud"
    /\ IF wordcloud_ok
       THEN pc' = "check_input" /\ UNCHANGED <<out, rc>>
       ELSE Fail(<<Msg("missing_wordcloud"), Msg("install_hint"), Msg("details")>>)
    /\ UNCHANGED <<args, wordcloud_ok, pdfminer_ok, input_exists, tex_files,
                   pdfs, stop_seen, stop_file, stopwords, idx, read_log,
                   all_words, raw_counts, words, counts, rendered,
                   png_written, fn_vars>>

\* the message printed, "return 1" missing
CheckInput_no_return ==
    /\ pc = "check_input"
    /\ pc' = "glob"
    /\ out' = IF input_exists THEN out ELSE out \o <<Msg("input_not_found")>>
    /\ UNCHANGED <<rc, args, wordcloud_ok, pdfminer_ok, input_exists, tex_files,
                   pdfs, stop_seen, stop_file, stopwords, idx, read_log,
                   all_words, raw_counts, words, counts, rendered,
                   png_written, fn_vars>>

\* if not input_dir.exists()
CheckInput ==
    /\ pc = "check_input"
    /\ IF input_exists
       THEN pc' = "glob" /\ UNCHANGED <<out, rc>>
       ELSE Fail(<<Msg("input_not_found")>>)
    /\ UNCHANGED <<args, wordcloud_ok, pdfminer_ok, input_exists, tex_files,
                   pdfs, stop_seen, stop_file, stopwords, idx, read_log,
                   all_words, raw_counts, words, counts, rendered,
                   png_written, fn_vars>>

\* tex_files, pdfs = the two sorted globs; fail if both are empty
Glob ==
    /\ pc = "glob"
    /\ \E dir \in Dirs :
        /\ tex_files' = SortedGlob(dir, <<".","t","e","x">>)
        /\ pdfs' = SortedGlob(dir, <<".","p","d","f">>)
    /\ IF tex_files' = <<>> /\ pdfs' = <<>>
       THEN Fail(<<Msg("no_files")>>)
       ELSE pc' = "stopwords" /\ UNCHANGED <<out, rc>>
    /\ UNCHANGED <<args, wordcloud_ok, pdfminer_ok, input_exists,
                   stop_seen, stop_file, stopwords, idx, read_log,
                   all_words, raw_counts, words, counts, rendered,
                   png_written, fn_vars>>

\* the fallback path whatever --stopwords says
StopPath_fallback(a) == FallbackPath

\* Path(args.stopwords) if args.stopwords else the fallback
StopPath(a) == IF a.stopwords # "" THEN a.stopwords ELSE FallbackPath

\* the test inverted
AfterStopwords_inverted(tex) == IF tex = <<>> THEN "read_tex" ELSE "import_pdfminer"

\* the branch taken after the stopwords are built: "if tex_files:"
AfterStopwords(tex) == IF tex # <<>> THEN "read_tex" ELSE "import_pdfminer"

\* stopwords = STOPWORDS + file + --extra-stopwords
LoadStopwords ==
    /\ pc = "stopwords"
    /\ \E exists \in BOOLEAN, text \in StopFileTexts :
        /\ exists \/ text = <<>>
        /\ stop_seen' = stop_seen \cup {StopPath(args)}
        /\ stop_file' = [exists |-> exists, text |-> text]
        /\ IF ~exists /\ args.stopwords # ""
           THEN /\ Fail(<<Msg("stopwords_not_found")>>)
                /\ stopwords' = STOPWORDS
           ELSE /\ stopwords' =
                     STOPWORDS
                     \cup (IF exists THEN StripLowerSet(SplitLines(text)) ELSE {})
                     \cup (IF args.extra_stopwords # <<>>
                           THEN StripLowerSet(Split(args.extra_stopwords, ","))
                           ELSE {})
                /\ pc' = AfterStopwords(tex_files)
                /\ UNCHANGED <<out, rc>>
    /\ UNCHANGED <<args, wordcloud_ok, pdfminer_ok, input_exists, tex_files,
                   pdfs, idx, read_log, all_words, raw_counts, words, counts,
                   rendered, png_written, fn_vars>>

\* one iteration of "for tex in tex_files"
ReadTex ==
    /\ pc = "read_tex"
    /\ idx <= Len(tex_files)
    /\ \E text \in TexDocs :
        all_words' = all_words \o _clean_text(_strip_latex(text), args.min_len)
    /\ read_log' = Append(read_log, <<"read_text", tex_files[idx]>>)
    /\ idx' = idx + 1
    /\ pc' = IF idx = Len(tex_files) THEN "count" ELSE "read_tex"
    /\ UNCHANGED <<args, wordcloud_ok, pdfminer_ok, input_exists, tex_files,
                   pdfs, stop_seen, stop_file, stopwords, raw_counts, words,
                   counts, rendered, png_written, out, rc, fn_vars>>

\* the import failure reported, "return 1" missing
ImportPdfminer_no_return ==
    /\ pc = "import_pdfminer"
    /\ pc' = (IF pdfs = <<>> THEN "count" ELSE "extract_pdf")
    /\ out' = IF pdfminer_ok THEN out
              ELSE out \o <<Msg("missing_pdfminer"), Msg("install_hint"), Msg("details")>>
    /\ UNCHANGED <<rc, args, wordcloud_ok, pdfminer_ok, input_exists, tex_files,
                   pdfs, stop_seen, stop_file, stopwords, idx, read_log,
                   all_words, raw_counts, words, counts, rendered,
                   png_written, fn_vars>>

\* from pdfminer.high_level import extract_text
ImportPdfminer ==
    /\ pc = "import_pdfminer"
    /\ IF pdfminer_ok
       THEN pc' = (IF pdfs = <<>> THEN "count" ELSE "extract_pdf")
            /\ UNCHANGED <<out, rc>>
       ELSE Fail(<<Msg("missing_pdfminer"), Msg("install_hint"), Msg("details")>>)
    /\ UNCHANGED <<args, wordcloud_ok, pdfminer_ok, input_exists, tex_files,
                   pdfs, stop_seen, stop_file, stopwords, idx, read_log,
                   all_words, raw_counts, words, counts, rendered,
                   png_written, fn_vars>>

\* one iteration of "for pdf in pdfs"
ExtractPdf ==
    /\ pc = "extract_pdf"
    /\ idx <= Len(pdfs)
    /\ \E text \in PdfDocs :
        all_words' = all_words \o _clean_text(text, args.min_len)
    /\ read_log' = Append(read_log, <<"extract_text", pdfs[idx]>>)
    /\ idx' = idx + 1
    /\ pc' = IF idx = Len(pdfs) THEN "count" ELSE "extract_pdf"
    /\ UNCHANGED <<args, wordcloud_ok, pdfminer_ok, input_exists, tex_files,
                   pdfs, stop_seen, stop_file, stopwords, raw_counts, words,
                   counts, rendered, png_written, out, rc, fn_vars>>

\* "in" for "not in"
FilterStopwords_inverted(ws, stop) == SelectSeq(ws, LAMBDA w : w \in stop)

\* [w for w in all_words if w not in stopwords]
FilterStopwords(ws, stop) == SelectSeq(ws, LAMBDA w : w \notin stop)

\* raw_counts, words, counts
Count ==
    /\ pc = "count"
    /\ raw_counts' = Counter(all_words)
    /\ words' = FilterStopwords(all_words, stopwords)
    /\ counts' = Counter(words')
    /\ pc' = "render"
    /\ UNCHANGED <<args, wordcloud_ok, pdfminer_ok, input_exists, tex_files,
                   pdfs, stop_seen, stop_file, stopwords, idx, read_log,
                   all_words, rendered, png_written, out, rc, fn_vars>>

\* wc.generate_from_frequencies(counts); wc.to_file(str(output_path))
Render ==
    /\ pc = "render"
    /\ rendered' = TRUE
    /\ png_written' = TRUE
    /\ pc' = "report"
    /\ UNCHANGED <<args, wordcloud_ok, pdfminer_ok, input_exists, tex_files,
                   pdfs, stop_seen, stop_file, stopwords, idx, read_log,
                   all_words, raw_counts, words, counts, out, rc, fn_vars>>

\* the lines of "if args.print_top:"
PrintTopLines(n, cnt) ==
    IF n # 0
    THEN LET top == most_common(cnt, n)
         IN  <<Line("top_header", <<>>, n, 0, <<>>)>>
             \o [i \in 1..Len(top) |-> Line("top", top[i][1], top[i][2], 0, <<>>)]
    ELSE <<>>

\* the filtered table looked up for both values
DebugLines_filtered_twice(dw, raw, cnt) ==
    IF dw # <<>>
    THEN LET targets == StripLowerList(dw)
         IN  [i \in 1..Len(targets) |->
                Line("debug", targets[i], Get(cnt, targets[i]),
                     Get(cnt, targets[i]), <<>>)]
    ELSE <<>>

\* the lines of "if args.debug_words:"
DebugLines(dw, raw, cnt) ==
    IF dw # <<>>
    THEN LET targets == StripLowerList(dw)
         IN  [i \in 1..Len(targets) |->
                Line("debug", targets[i], Get(raw, targets[i]),
                     Get(cnt, targets[i]), <<>>)]
    ELSE <<>>

\* the prints after the PNG is saved, and "return 0"
Report ==
    /\ pc = "report"
    /\ out' = out
              \o <<Msg("saved"),
                   Line("top_words", <<>>, 0, 0, most_common(counts, TopWords))>>
              \o PrintTopLines(args.print_top, counts)
              \o DebugLines(args.debug_words, raw_counts, counts)
    /\ rc' = 0
    /\ pc' = "done"
    /\ UNCHANGED <<args, wordcloud_ok, pdfminer_ok, input_exists, tex_files,
                   pdfs, stop_seen, stop_file, stopwords, idx, read_log,
                   all_words, raw_counts, words, counts, rendered,
                   png_written, fn_vars>>

Next ==
    \/ ImportWordcloud
    \/ CheckInput
    \/ Glob
    \/ LoadStopwords
    \/ ReadTex
    \/ ImportPdfminer
    \/ ExtractPdf
    \/ Count
    \/ Render
    \/ Report

Spec == Init /\ [][Next]_vars

(***************************************************************************)
(* Properties                                                              *)
(***************************************************************************)
\* number of occurrences of w in the sequence ws
Occ(ws, w) == Cardinality({i \in 1..Len(ws) : ws[i] = w})

Elems(ws) == {ws[i] : i \in 1..Len(ws)}

Kinds(lines) == {lines[i].kind : i \in 1..Len(lines)}

OfKind(lines, kind) == SelectSeq(lines, LAMBDA l : l.kind = kind)

\* the kinds of extraction the run has used
ReadKinds == {read_log[i][1] : i \in 1..Len(read_log)}

ReadNames == [i \in 1..Len(read_log) |-> read_log[i][2]]

\* the frequency tables have been built
Counted == pc \in {"render", "report"} \/ rc = 0

\* the words a frequency lookup is tried on: those of the corpus, the
\* stopwords, and two more
WordUniverse ==
    Elems(all_words) \cup stopwords \cup {W_field, <<"z","z">>}

\* C1: the run extracts text from one file set only, never both: with a .tex
\* file present only the .tex files are read, in lexicographic order, and no
\* .pdf is passed to the PDF extractor; .pdf files are extracted only when
\* there is no .tex file.
C1_TexPrecedence ==
    /\ Cardinality(ReadKinds) <= 1
    /\ tex_files # <<>> => "extract_text" \notin ReadKinds
    /\ "extract_text" \in ReadKinds => tex_files = <<>>
    /\ \A i \in 1..Len(read_log) :
          IF read_log[i][1] = "read_text"
          THEN EndsWith(read_log[i][2], <<".","t","e","x">>)
          ELSE EndsWith(read_log[i][2], <<".","p","d","f">>)
    /\ \A i, j \in 1..Len(read_log) :
          i < j => StrLess(read_log[i][2], read_log[j][2])
    /\ Counted => ReadNames = (IF tex_files # <<>> THEN tex_files ELSE pdfs)

C1_Witness ==
    /\ rc = 0
    /\ pdfs # <<>>
    /\ Len(tex_files) = 2
    /\ Len(read_log) = 2
    /\ ReadKinds = {"read_text"}

FailureKinds ==
    {"missing_wordcloud", "missing_pdfminer", "input_not_found", "no_files",
     "stopwords_not_found"}

\* what the environment and the command line make fail
FailureCondition ==
    \/ ~wordcloud_ok
    \/ ~input_exists
    \/ tex_files = <<>> /\ pdfs = <<>>
    \/ ~stop_file.exists /\ args.stopwords # ""
    \/ tex_files = <<>> /\ ~pdfminer_ok

\* C2: a run that ends with exit code 1 has not rendered and has not written
\* the PNG; each of the five failures gives exit code 1, a missing input
\* directory in particular; exit code 0 comes only after the PNG was written.
C2_FailNoOutput ==
    /\ rc = 1 => ~png_written /\ ~rendered /\ Kinds(out) \cap FailureKinds # {}
    /\ rc = 0 => png_written /\ rendered
    /\ pc = "done" => rc \in {0, 1}
    /\ pc = "done" => (rc = 1 <=> FailureCondition)
    /\ pc = "done" /\ ~input_exists => rc = 1 /\ ~png_written

C2_Witness ==
    /\ pc = "done"
    /\ rc = 1
    /\ wordcloud_ok
    /\ ~input_exists
    /\ "input_not_found" \in Kinds(out)
    /\ ~png_written

\* C3 as stated: for every word w, raw_counts[w] >= counts.get(w, 0), with
\* equality iff w is not a stopword.
C3_Original ==
    Counted =>
        \A w \in WordUniverse :
            /\ Get(raw_counts, w) >= Get(counts, w)
            /\ (Get(raw_counts, w) = Get(counts, w)) <=> (w \notin stopwords)

\* C3 amended: for every word w, raw_counts[w] >= counts.get(w, 0), with
\* equality iff w is not a stopword or w does not occur in the corpus.
C3_Amended ==
    Counted =>
        \A w \in WordUniverse :
            /\ Get(raw_counts, w) >= Get(counts, w)
            /\ (Get(raw_counts, w) = Get(counts, w))
                  <=> (w \notin stopwords \/ Get(raw_counts, w) = 0)

C3_Witness ==
    /\ Counted
    /\ \E w \in stopwords : Get(raw_counts, w) > 0 /\ Get(counts, w) = 0
    /\ \E w \in stopwords : Get(raw_counts, w) = 0
    /\ \E w \in Elems(all_words) \ stopwords : Get(counts, w) > 0

\* C4 as stated: for every text and every min_len, every token _clean_text
\* returns is one or more lowercase ASCII letters and at least min_len long.
C4_Claim ==
    fn_pc \in {"reclean", "done"} =>
        \A i \in 1..Len(fn_tokens) :
            /\ Len(fn_tokens[i]) >= 1
            /\ Len(fn_tokens[i]) >= fn_min_len
            /\ \A k \in 1..Len(fn_tokens[i]) : IsLower(fn_tokens[i][k])

\* the lines of text whose first non-space character is not "%", joined again
RECURSIVE JoinLines(_)
JoinLines(ls) ==
    IF ls = <<>> THEN <<>>
    ELSE IF Len(ls) = 1 THEN ls[1]
    ELSE ls[1] \o <<"\n">> \o JoinLines(Tail(ls))

WithoutCommentLines(text) ==
    JoinLines(SelectSeq(Split(text, "\n"),
                        LAMBDA l : Strip(l) = <<>> \/ Head(Strip(l)) # "%"))

\* C5 as stated: the example input tokenizes (min_len = 3) to hello, world,
\* more, text, and every line whose first non-space character is "%" is
\* removed by _strip_latex, also when spaces precede the "%".
C5_Claim ==
    fn_pc = "done" =>
        /\ fn_text = ExampleTex /\ fn_min_len = 3 =>
              fn_tokens = << <<"h","e","l","l","o">>, <<"w","o","r","l","d">>,
                             <<"m","o","r","e">>, <<"t","e","x","t">> >>
        /\ fn_text \in SeqsUpTo({"%", " ", "\n", "a"}, MaxTexLen) =>
              fn_tokens = _clean_text(WithoutCommentLines(fn_text), fn_min_len)

\* the requested entries of --debug-words that are not blank
DebugEntries ==
    SelectSeq(Split(args.debug_words, ","),
              LAMBDA e : \E k \in 1..Len(e) : ~IsSpace(e[k]))

\* C6: with --debug-words, one line per requested word (trimmed, lowercased,
\* blank entries dropped, in the order given) reports the occurrences of the
\* word in the unfiltered and in the filtered token stream, 0 when absent;
\* the lookup leaves both frequency tables as the counting built them.
C6_DebugReport ==
    rc = 0 =>
        LET d == OfKind(out, "debug")
        IN  /\ Len(d) = Len(DebugEntries)
            /\ \A i \in 1..Len(d) :
                  /\ d[i].word = Lower(Strip(DebugEntries[i]))
                  /\ d[i].n = Occ(all_words, d[i].word)
                  /\ d[i].m = (IF d[i].word \in stopwords THEN 0
                               ELSE Occ(all_words, d[i].word))
            /\ {raw_counts[i][1] : i \in 1..Len(raw_counts)} = Elems(all_words)
            /\ {counts[i][1] : i \in 1..Len(counts)} = Elems(all_words) \ stopwords
            /\ \A w \in WordUniverse :
                  /\ Get(raw_counts, w) = Occ(all_words, w)
                  /\ Get(counts, w) = Occ(words, w)

C6_Witness ==
    /\ rc = 0
    /\ LET d == OfKind(out, "debug")
       IN  /\ Len(d) = 2
           /\ d[1].word = W_the /\ d[1].n = 5 /\ d[1].m = 0
           /\ d[2].word = W_quantum /\ d[2].n = 3 /\ d[2].m = 3

\* C7: an explicit stopwords path that does not exist fails the run with
\* "Stopwords file not found" and exit code 1; without an explicit path the
\* fallback file is merged when present and its absence lets the run go on;
\* with an explicit path the fallback path is never consulted.
C7_StopwordsFile ==
    /\ stop_seen # {} /\ ~stop_file.exists /\ args.stopwords # "" =>
          /\ pc = "done" /\ rc = 1
          /\ out[Len(out)].kind = "stopwords_not_found"
    /\ stop_seen # {} /\ ~stop_file.exists /\ args.stopwords = "" =>
          /\ "stopwords_not_found" \notin Kinds(out)
          /\ pc # "stopwords"
          /\ rc = 1 => "missing_pdfminer" \in Kinds(out)
          /\ pc = "done" /\ (tex_files # <<>> \/ pdfminer_ok) => rc = 0
    /\ stop_seen # {} /\ stop_file.exists =>
          /\ "stopwords_not_found" \notin Kinds(out)
          /\ \A l \in Elems(Split(stop_file.text, "\n")) :
                Strip(l) # <<>> => Lower(Strip(l)) \in stopwords
    /\ args.stopwords # "" => FallbackPath \notin stop_seen
    /\ args.stopwords # "" /\ stop_seen # {} => stop_seen = {args.stopwords}
    /\ args.stopwords = "" => stop_seen \subseteq {FallbackPath}

C7_Witness ==
    /\ pc = "done"
    /\ rc = 1
    /\ args.stopwords # ""
    /\ stop_seen = {args.stopwords}
    /\ ~stop_file.exists
    /\ "stopwords_not_found" \in Kinds(out)

\* C8: cleaning is idempotent: the tokens of a text, joined by single spaces
\* and cleaned again with the same min_len, are the same token sequence.
C8_Idempotent ==
    fn_pc = "done" => fn_again = fn_tokens

C8_Witness ==
    /\ fn_pc = "done"
    /\ Len(fn_tokens) >= 2
    /\ fn_min_len >= 1
    /\ JoinSpace(fn_tokens) # fn_text
    /\ fn_again = fn_tokens

\* C9 as stated: the extended report (header and word/count lines) is
\* printed iff --print-top N is positive; then min(N, distinct filtered
\* words) lines are listed in non-increasing count order.
C9_Claim ==
    rc = 0 =>
        LET hdr == OfKind(out, "top_header")
            top == OfKind(out, "top")
        IN  /\ (Len(hdr) + Len(top) > 0) <=> (args.print_top > 0)
            /\ args.print_top > 0 =>
                  /\ Len(hdr) = 1
                  /\ Len(top) = (IF args.print_top < Len(counts)
                                 THEN args.print_top ELSE Len(counts))
                  /\ \A i, j \in 1..Len(top) : i < j => top[i].n >= top[j].n

\* the input directory exists and holds a .tex or a .pdf file
PassesInputChecks ==
    wordcloud_ok /\ input_exists /\ (tex_files # <<>> \/ pdfs # <<>>)

\* C10 as stated: with the PDF extraction dependency unavailable the run
\* aborts with a message and a nonzero exit status, no PDF extracted, nothing
\* counted or rendered, for every directory that passes the input checks.
C10_Original ==
    pc = "done" /\ ~pdfminer_ok /\ PassesInputChecks =>
        /\ rc = 1
        /\ "extract_text" \notin ReadKinds
        /\ raw_counts = <<>> /\ ~rendered

\* C10 amended: the same, for every directory that passes the input checks
\* and holds no .tex file; without the dependency no PDF is ever extracted.
C10_Amended ==
    /\ ~pdfminer_ok => "extract_text" \notin ReadKinds
    /\ pc = "done" /\ ~pdfminer_ok /\ PassesInputChecks /\ tex_files = <<>> =>
          /\ rc = 1
          /\ read_log = <<>> /\ all_words = <<>>
          /\ raw_counts = <<>> /\ counts = <<>>
          /\ ~rendered /\ ~png_written
          /\ Kinds(out) \cap {"missing_pdfminer", "stopwords_not_found"} # {}

C10_Witness ==
    /\ pc = "done"
    /\ rc = 1
    /\ ~pdfminer_ok
    /\ pdfs # <<>>
    /\ tex_files = <<>>
    /\ "missing_pdfminer" \in Kinds(out)
    /\ out[Len(out)].kind = "details"

====
